---- MODULE Spec2Model ----
(***************************************************************************)
(* Model of app.py: the "YouTube video -> 3 tweets" Streamlit script.      *)
(*                                                                         *)
(* A Python str is a sequence of characters; a character is a one-letter   *)
(* TLA+ string ("a", "/", " ").  Characters outside ASCII are written by   *)
(* their code point, "U+00E9" and "U+FFFD"; so is the grave accent,        *)
(* "U+0060", which cannot be written inside a TLA+ string.                 *)
(***************************************************************************)
EXTENDS Integers, Sequences, FiniteSets, TLC

VARIABLES pc, env_key, url, video_id, transcript, tweets, ui, calls, arg, ret

vars == <<pc, env_key, url, video_id, transcript, tweets, ui, calls, arg, ret>>

(***************************************************************************)
(* Characters                                                              *)
(***************************************************************************)

\* The printable ASCII characters in code order, 32 (space) to 126 (~).
Ascii ==
    << " ", "!", "\"", "#", "$", "%", "&", "'", "(", ")", "*", "+", ",", "-", ".", "/",
       "0", "1", "2", "3", "4", "5", "6", "7", "8", "9", ":", ";", "<", "=", ">", "?",
       "@", "A", "B", "C", "D", "E", "F", "G", "H", "I", "J", "K", "L", "M", "N", "O",
       "P", "Q", "R", "S", "T", "U", "V", "W", "X", "Y", "Z", "[", "\\", "]", "^", "_",
       "U+0060", "a", "b", "c", "d", "e", "f", "g", "h", "i", "j", "k", "l", "m", "n", "o",
       "p", "q", "r", "s", "t", "u", "v", "w", "x", "y", "z", "{", "|", "}", "~" >>

\* ord(c)
Ord(c) ==
    IF c = "\t" THEN 9
    ELSE IF c = "\n" THEN 10
    ELSE IF c = "U+00E9" THEN 233
    ELSE IF c = "U+FFFD" THEN 65533
    ELSE 31 + (CHOOSE i \in 1..Len(Ascii) : Ascii[i] = c)

\* chr(n), for the code points the model writes
Chr(n) ==
    IF n = 9 THEN "\t"
    ELSE IF n = 10 THEN "\n"
    ELSE IF n = 233 THEN "U+00E9"
    ELSE IF n > 31 /\ n <= 31 + Len(Ascii) THEN Ascii[n - 31]
    ELSE "U+FFFD"

IsDigit(c) == Ord(c) \in 48..57
IsUpper(c) == Ord(c) \in 65..90
IsLower(c) == Ord(c) \in 97..122

(***************************************************************************)
(* str methods                                                             *)
(***************************************************************************)

Sub(s, i, j) == SubSeq(s, i, j)

\* s[i:] with a 1-based i
From(s, i) == SubSeq(s, i, Len(s))

\* the characters of cs stripped from both ends of s: s.strip(cs)
RECURSIVE LStripSet(_, _)
LStripSet(s, cs) ==
    IF s # <<>> /\ Head(s) \in cs THEN LStripSet(Tail(s), cs) ELSE s

RECURSIVE RStripSet(_, _)
RStripSet(s, cs) ==
    IF s # <<>> /\ s[Len(s)] \in cs THEN RStripSet(Sub(s, 1, Len(s) - 1), cs) ELSE s

StripSet(s, cs) == RStripSet(LStripSet(s, cs), cs)

Whitespace == {" ", "\t", "\n"}

\* s.strip()
Strip(s) == StripSet(s, Whitespace)

\* s.find(c, start) with 1-based positions; 0 when c is not found
Find(s, c, start) ==
    IF \E i \in start..Len(s) : s[i] = c
    THEN CHOOSE i \in start..Len(s) : s[i] = c /\ \A j \in start..(i - 1) : s[j] # c
    ELSE 0

\* s.rfind(c), 1-based; 0 when c is not found
RFind(s, c) ==
    IF \E i \in 1..Len(s) : s[i] = c
    THEN CHOOSE i \in 1..Len(s) : s[i] = c /\ \A j \in (i + 1)..Len(s) : s[j] # c
    ELSE 0

\* s.split(c): the pieces of s between the occurrences of c
RECURSIVE Split(_, _)
Split(s, c) ==
    LET i == Find(s, c, 1)
    IN  IF i = 0 THEN <<s>>
        ELSE <<Sub(s, 1, i - 1)>> \o Split(From(s, i + 1), c)

\* s.split(c, 1): at most two pieces
Split1(s, c) ==
    LET i == Find(s, c, 1)
    IN  IF i = 0 THEN <<s>> ELSE <<Sub(s, 1, i - 1), From(s, i + 1)>>

\* s.replace(a, b) for single characters
Replace(s, a, b) == [i \in 1..Len(s) |-> IF s[i] = a THEN b ELSE s[i]]

\* s.lower() on ASCII
Lower(s) == [i \in 1..Len(s) |-> IF IsUpper(s[i]) THEN Chr(Ord(s[i]) + 32) ELSE s[i]]

\* sep.join(parts)
RECURSIVE Join(_, _)
Join(sep, parts) ==
    IF parts = <<>> THEN <<>>
    ELSE IF Len(parts) = 1 THEN parts[1]
    ELSE parts[1] \o sep \o Join(sep, Tail(parts))

\* n copies of the character c
Rep(c, n) == [i \in 1..n |-> c]

(***************************************************************************)
(* urllib.parse                                                            *)
(***************************************************************************)

HexDigits == <<"0", "1", "2", "3", "4", "5", "6", "7", "8", "9",
               "A", "B", "C", "D", "E", "F">>

IsHex(c) == \E i \in 1..16 : HexDigits[i] = c \/ Lower(<<HexDigits[i]>>)[1] = c

HexVal(c) == (CHOOSE i \in 1..16 : HexDigits[i] = c \/ Lower(<<HexDigits[i]>>)[1] = c) - 1

\* c.encode("utf-8"): the bytes of one character
Utf8(c) ==
    LET n == Ord(c)
    IN  IF n < 128 THEN <<n>>
        ELSE IF n < 2048 THEN <<192 + (n \div 64), 128 + (n % 64)>>
        ELSE <<224 + (n \div 4096), 128 + ((n \div 64) % 64), 128 + (n % 64)>>

RECURSIVE Encode(_)
Encode(s) == IF s = <<>> THEN <<>> ELSE Utf8(Head(s)) \o Encode(Tail(s))

IsCont(bs, i) == i <= Len(bs) /\ bs[i] \in 128..191

\* bytes.decode("utf-8", "replace")
RECURSIVE Decode(_)
Decode(bs) ==
    IF bs = <<>> THEN <<>>
    ELSE LET b == bs[1]
         IN  IF b < 128 THEN <<Chr(b)>> \o Decode(Tail(bs))
             ELSE IF b \in 194..223 /\ IsCont(bs, 2)
             THEN <<Chr((b - 192) * 64 + (bs[2] - 128))>> \o Decode(From(bs, 3))
             ELSE IF b \in 224..239 /\ IsCont(bs, 2) /\ IsCont(bs, 3)
             THEN <<Chr((b - 224) * 4096 + (bs[2] - 128) * 64 + (bs[3] - 128))>>
                  \o Decode(From(bs, 4))
             ELSE <<"U+FFFD">> \o Decode(Tail(bs))

\* unquote_to_bytes: %XX becomes one byte, every other character its own bytes
RECURSIVE UnquoteToBytes(_)
UnquoteToBytes(s) ==
    IF s = <<>> THEN <<>>
    ELSE IF s[1] = "%" /\ Len(s) >= 3 /\ IsHex(s[2]) /\ IsHex(s[3])
         THEN <<HexVal(s[2]) * 16 + HexVal(s[3])>> \o UnquoteToBytes(From(s, 4))
         ELSE Utf8(s[1]) \o UnquoteToBytes(Tail(s))

\* urllib.parse.unquote(s)
unquote(s) == Decode(UnquoteToBytes(s))

\* A variant with safe="/&".
IsSafeByteAmp(b) ==
    \/ b \in 48..57 \/ b \in 65..90 \/ b \in 97..122
    \/ b \in {Ord("_"), Ord("."), Ord("-"), Ord("~")}
    \/ b = Ord("/") \/ b = Ord("&")

\* _ALWAYS_SAFE plus quote's default safe="/"
IsSafeByte(b) ==
    \/ b \in 48..57 \/ b \in 65..90 \/ b \in 97..122
    \/ b \in {Ord("_"), Ord("."), Ord("-"), Ord("~")}
    \/ b = Ord("/")

QuoteByte(b) ==
    IF IsSafeByte(b) THEN <<Chr(b)>>
    ELSE <<"%", HexDigits[(b \div 16) + 1], HexDigits[(b % 16) + 1]>>

RECURSIVE QuoteBytes(_)
QuoteBytes(bs) == IF bs = <<>> THEN <<>> ELSE QuoteByte(Head(bs)) \o QuoteBytes(Tail(bs))

\* urllib.parse.quote(s)
quote(s) == QuoteBytes(Encode(s))

\* scheme_chars
IsSchemeChar(c) == IsLower(c) \/ IsUpper(c) \/ IsDigit(c) \/ c \in {"+", "-", "."}

\* uses_params, as far as the model's schemes go
UsesParams == {<<>>, <<"h", "t", "t", "p">>, <<"h", "t", "t", "p", "s">>, <<"f", "t", "p">>}

\* the first position >= start of any of "/?#", or Len(s) + 1
NetlocEnd(s, start) ==
    LET hits == {i \in start..Len(s) : s[i] \in {"/", "?", "#"}}
    IN  IF hits = {} THEN Len(s) + 1 ELSE CHOOSE i \in hits : \A j \in hits : i <= j

Has(s, c) == \E i \in 1..Len(s) : s[i] = c

\* _check_bracketed_host: an IPv6 literal is hex digits and colons (no other host
\* passes ipaddress.ip_address)
BracketedHostOk(netloc) ==
    LET h == Split1(Split1(netloc, "[")[2], "]")[1]
    IN  /\ Cardinality({i \in 1..Len(h) : h[i] = ":"}) >= 2
        /\ \A i \in 1..Len(h) : IsHex(h[i]) \/ h[i] = ":"

\* _splitparams(path)
splitparams(path) ==
    LET i == IF Has(path, "/") THEN Find(path, ";", RFind(path, "/")) ELSE Find(path, ";", 1)
    IN  IF i = 0 THEN <<path, <<>>>> ELSE <<Sub(path, 1, i - 1), From(path, i + 1)>>

\* urlparse, last step: ";params" is split off the path (scheme in uses_params)
ParseResult(raised, scheme, netloc, path, query, fragment) ==
    LET sp == IF scheme \in UsesParams /\ Has(path, ";") THEN splitparams(path)
              ELSE <<path, <<>>>>
    IN  [raised |-> raised, scheme |-> scheme, netloc |-> netloc, path |-> sp[1],
         params |-> sp[2], query |-> query, fragment |-> fragment]

\* url.split("?", 1)
SplitQuery(raised, scheme, netloc, rest, fragment) ==
    LET q == Split1(rest, "?")
    IN  ParseResult(raised, scheme, netloc, q[1], IF Len(q) = 2 THEN q[2] ELSE <<>>, fragment)

\* url.split("#", 1)
SplitFragment(raised, scheme, netloc, rest) ==
    LET f == Split1(rest, "#")
    IN  SplitQuery(raised, scheme, netloc, f[1], IF Len(f) = 2 THEN f[2] ELSE <<>>)

\* the ValueError of a netloc with an unmatched or a non-IPv6 bracket
BadNetloc(netloc) ==
    \/ Has(netloc, "[") /\ ~Has(netloc, "]")
    \/ Has(netloc, "]") /\ ~Has(netloc, "[")
    \/ Has(netloc, "[") /\ Has(netloc, "]") /\ ~BracketedHostOk(netloc)

\* _splitnetloc(url, 2) when url[:2] == "//"
SplitNetloc(scheme, rest) ==
    IF Len(rest) >= 2 /\ rest[1] = "/" /\ rest[2] = "/"
    THEN LET d == NetlocEnd(rest, 3)
         IN  SplitFragment(BadNetloc(Sub(rest, 3, d - 1)), scheme, Sub(rest, 3, d - 1),
                           From(rest, d))
    ELSE SplitFragment(FALSE, scheme, <<>>, rest)

\* whether u[:i] is a scheme, i the position of the first ":" (0 for none)
IsScheme(u, i) ==
    /\ i > 1
    /\ IsLower(u[1]) \/ IsUpper(u[1])
    /\ \A k \in 1..(i - 1) : IsSchemeChar(u[k])

SplitScheme(u, i) ==
    SplitNetloc(IF IsScheme(u, i) THEN Lower(Sub(u, 1, i - 1)) ELSE <<>>,
                IF IsScheme(u, i) THEN From(u, i + 1) ELSE u)

\* url.lstrip(_WHATWG_C0_CONTROL_OR_SPACE), then tab and newline removed anywhere
Cleaned(text) == SelectSeq(LStripSet(text, Whitespace), LAMBDA c : c \notin {"\t", "\n"})

FindColon(u) == SplitScheme(u, Find(u, ":", 1))

\* urlparse(url): the six components, or raised = TRUE for its ValueError
urlparse(text) == FindColon(Cleaned(text))

\* parse_qsl(qs): the (name, value) pairs, blank values dropped
RECURSIVE QslOf(_)
QslOf(fields) ==
    IF fields = <<>> THEN <<>>
    ELSE LET nv == Split1(Head(fields), "=")
         IN  (IF Head(fields) # <<>> /\ Len(nv) = 2 /\ Len(nv[2]) > 0
              THEN <<<<unquote(Replace(nv[1], "+", " ")), unquote(Replace(nv[2], "+", " "))>>>>
              ELSE <<>>)
             \o QslOf(Tail(fields))

parse_qsl(qs) == IF qs = <<>> THEN <<>> ELSE QslOf(Split(qs, "&"))

\* parse_qs(qs).get(name): the list of name's values, <<>> for None
qs_get(qs, name) ==
    LET pairs == parse_qsl(qs)
        hit == SelectSeq(pairs, LAMBDA p : p[1] = name)
    IN  [k \in 1..Len(hit) |-> hit[k][2]]

(***************************************************************************)
(* extract_video_id                                                        *)
(***************************************************************************)

IdLen == 11

\* one character of the class [A-Za-z0-9_-]
IsIdChar(c) == IsUpper(c) \/ IsLower(c) \/ IsDigit(c) \/ c \in {"_", "-"}

\* re.fullmatch(r"[A-Za-z0-9_-]{11}", s)
FullMatchId(s) == Len(s) = IdLen /\ \A i \in 1..Len(s) : IsIdChar(s[i])

Shorts == <<"/", "s", "h", "o", "r", "t", "s", "/">>

\* the positions where re.search(r"/shorts/([A-Za-z0-9_-]{11})", path) can match
ShortsHits(path) ==
    {i \in 1..Len(path) :
        /\ i + Len(Shorts) + IdLen - 1 <= Len(path)
        /\ Sub(path, i, i + Len(Shorts) - 1) = Shorts
        /\ \A k \in 1..IdLen : IsIdChar(path[i + Len(Shorts) + k - 1])}

\* A variant with the group written [A-Za-z0-9_-]+: the whole run of id characters.
RECURSIVE IdRun(_)
IdRun(s) == IF s # <<>> /\ IsIdChar(Head(s)) THEN <<Head(s)>> \o IdRun(Tail(s)) ELSE <<>>

ShortsGroupGreedy(path) ==
    LET i == CHOOSE h \in ShortsHits(path) : \A j \in ShortsHits(path) : h <= j
    IN  IdRun(From(path, i + Len(Shorts)))

\* m.group(1) of the leftmost match
ShortsGroup(path) ==
    LET i == CHOOSE h \in ShortsHits(path) : \A j \in ShortsHits(path) : h <= j
    IN  Sub(path, i + Len(Shorts), i + Len(Shorts) + IdLen - 1)

ShortHosts == {<<"y", "o", "u", "t", "u", ".", "b", "e">>,
               <<"w", "w", "w", ".", "y", "o", "u", "t", "u", ".", "b", "e">>}

WatchPath == <<"/", "w", "a", "t", "c", "h">>

Returned(v) == [raised |-> FALSE, val |-> v]
Raised == [raised |-> TRUE, val |-> <<>>]

\* vid = u.path.strip("/").split("/")[0]
FirstSegment(path) == Split(StripSet(path, {"/"}), "/")[1]

\* vid = (qs.get("v") or [""])[0]
FirstV(vs) == IF vs = <<>> THEN <<>> ELSE vs[1]

\* lines 41-46
ExtractShorts(path) ==
    IF ShortsHits(path) # {} THEN Returned(ShortsGroup(path)) ELSE Raised

\* lines 34-39
ExtractWatch(u, v) ==
    IF u.path = WatchPath /\ FullMatchId(v) THEN Returned(v) ELSE ExtractShorts(u.path)

\* lines 28-32
ExtractShort(u, v) ==
    IF u.netloc \in ShortHosts /\ FullMatchId(v) THEN Returned(v)
    ELSE ExtractWatch(u, FirstV(qs_get(u.query, <<"v">>)))

\* line 26 on; urlparse's ValueError is caught by nothing in the function
ExtractParsed(u) == IF u.raised THEN Raised ELSE ExtractShort(u, FirstSegment(u.path))

\* lines 22-24
ExtractStripped(s) == IF FullMatchId(s) THEN Returned(s) ELSE ExtractParsed(urlparse(s))

\* extract_video_id(url): the id, or raised = TRUE for the ValueError
extract_video_id(text) == ExtractStripped(Strip(text))

(***************************************************************************)
(* fetch_transcript_text                                                   *)
(***************************************************************************)

\* A transcript provider's answer: it raises, or it returns the snippets' texts.
ProviderRaised == [raised |-> TRUE, snippets |-> <<>>]
Fetched(snips) == [raised |-> FALSE, snippets |-> snips]

\* [f(x) for x in xs]
RECURSIVE StripEach(_)
StripEach(xs) == IF xs = <<>> THEN <<>> ELSE <<Strip(Head(xs))>> \o StripEach(Tail(xs))

\* " ".join(s.text.strip() for s in fetched.snippets if s.text).strip()
fetch_transcript_text(fetched) ==
    Strip(Join(<<" ">>, StripEach(SelectSeq(fetched.snippets, LAMBDA t : t # <<>>))))

(***************************************************************************)
(* x_intent_url                                                            *)
(***************************************************************************)

IntentPrefix ==
    <<"h", "t", "t", "p", "s", ":", "/", "/", "t", "w", "i", "t", "t", "e", "r", ".", "c", "o", "m",
      "/", "i", "n", "t", "e", "n", "t", "/", "t", "w", "e", "e", "t", "?", "t", "e", "x", "t", "=">>

x_intent_url(tweet_text) == IntentPrefix \o quote(tweet_text)

(***************************************************************************)
(* generate_3_tweets                                                       *)
(*                                                                         *)
(* A Python value is [t |-> its type, s |-> its characters (a str),        *)
(* items |-> its elements (a list) or its keys (a dict)]; a dict carries   *)
(* the value of its "tweets" key besides, when it has one.  A response     *)
(* body is [json |-> whether it is a JSON text, doc |-> the JSON value].   *)
(***************************************************************************)

PyStr(chars) == [t |-> "str", s |-> chars, items |-> <<>>]
PyInt == [t |-> "int", s |-> <<>>, items |-> <<>>]
PyNone == [t |-> "NoneType", s |-> <<>>, items |-> <<>>]
PyList(xs) == [t |-> "list", s |-> <<>>, items |-> xs]
\* a dict as a list entry or as the value of "tweets": its keys
PyKeys(ks) == [t |-> "dict", s |-> <<>>, items |-> ks]

Tweets == <<"t", "w", "e", "e", "t", "s">>

\* a top-level dict without and with the key "tweets"
PyDict(ks) == [t |-> "dict", s |-> <<>>, items |-> ks, has |-> FALSE, tweets |-> PyNone]
PyDictTweets(ks, v) ==
    [t |-> "dict", s |-> <<>>, items |-> <<PyStr(Tweets)>> \o ks, has |-> TRUE, tweets |-> v]
\* any other top-level value
PyTop(v) == [t |-> v.t, s |-> v.s, items |-> v.items, has |-> FALSE, tweets |-> PyNone]

NotJson == [json |-> FALSE, doc |-> PyTop(PyNone)]
Json(doc) == [json |-> TRUE, doc |-> doc]

\* json.loads(text): the value, or raised = TRUE for JSONDecodeError
json_loads(body) == [raised |-> ~body.json, obj |-> body.doc]

\* obj.get("tweets", []): only a dict has .get (AttributeError otherwise)
get_tweets(obj) ==
    IF obj.t # "dict" THEN [raised |-> TRUE, val |-> PyList(<<>>)]
    ELSE IF obj.has THEN [raised |-> FALSE, val |-> obj.tweets]
    ELSE [raised |-> FALSE, val |-> PyList(<<>>)]

\* what "for t in v" yields: a list's elements, a dict's keys, a str's characters;
\* any other type is not iterable (TypeError)
Iterable(v) == v.t \in {"list", "dict", "str"}

Iter(v) == IF v.t = "str" THEN [i \in 1..Len(v.s) |-> PyStr(<<v.s[i]>>)] ELSE v.items

\* [t.strip() for t in xs if isinstance(t, str) and t.strip()]
RECURSIVE StripNonBlank(_)
StripNonBlank(xs) ==
    IF xs = <<>> THEN <<>>
    ELSE (IF Head(xs).t = "str" /\ Strip(Head(xs).s) # <<>> THEN <<Strip(Head(xs).s)>> ELSE <<>>)
         \o StripNonBlank(Tail(xs))

MaxTweets == 3

\* xs[:n]
Take(xs, n) == Sub(xs, 1, IF Len(xs) < n THEN Len(xs) ELSE n)

\* A variant that cuts to 3 entries before it drops the blank ones.
generate_3_tweets_cut_first(body) ==
    LET parsed == json_loads(body)
        got    == IF parsed.raised THEN [raised |-> TRUE, val |-> PyList(<<>>)]
                  ELSE get_tweets(parsed.obj)
        tws    == IF got.raised THEN PyList(<<>>) ELSE got.val
    IN  IF ~Iterable(tws) THEN [raised |-> TRUE, val |-> <<>>]
        ELSE [raised |-> FALSE, val |-> StripNonBlank(Take(Iter(tws), MaxTweets))]

\* generate_3_tweets, from the response body on: the list, or raised = TRUE for the
\* TypeError of iterating a value that is not iterable
generate_3_tweets(body) ==
    LET parsed == json_loads(body)
        got    == IF parsed.raised THEN [raised |-> TRUE, val |-> PyList(<<>>)]
                  ELSE get_tweets(parsed.obj)
        tws    == IF got.raised THEN PyList(<<>>) ELSE got.val
    IN  IF ~Iterable(tws) THEN [raised |-> TRUE, val |-> <<>>]
        ELSE [raised |-> FALSE, val |-> Take(StripNonBlank(Iter(tws)), MaxTweets)]

(***************************************************************************)
(* Inputs                                                                  *)
(***************************************************************************)

\* how many characters longer than an id a candidate id may be
MaxExtra == 1
\* how many snippets a transcript has at most
MaxSnippets == 2
\* how many entries a "tweets" array has at most
MaxEntries == 4
\* how many characters a text handed to x_intent_url has at most
MaxText == 3

\* Candidate ids: IdLen - 1 to IdLen + MaxExtra characters, all `fill` but the last.
Cands(fill, lasts) ==
    {Rep(fill, n - 1) \o <<c>> : n \in (IdLen - 1)..(IdLen + MaxExtra), c \in lasts}

Https == <<"h", "t", "t", "p", "s", ":">>
YoutuBe == <<"y", "o", "u", "t", "u", ".", "b", "e">>
WwwYoutuBe == <<"w", "w", "w", ".">> \o YoutuBe
WwwYoutubeCom == <<"w", "w", "w", ".", "y", "o", "u", "t", "u", "b", "e", ".", "c", "o", "m">>

PathsOf(cs) ==
    {<<>>, <<"/">>, WatchPath, WatchPath \o <<";", "p">>, WatchPath \o <<"/">>}
    \cup {<<"/">> \o c : c \in cs}
    \cup {<<"/">> \o c \o <<"/", "x">> : c \in cs}
    \cup {Shorts \o c : c \in cs}
    \cup {Shorts \o c \o <<"/", "x">> : c \in cs}
    \cup {<<"/", "x">> \o Shorts \o c : c \in cs}

QueriesOf(cs) ==
    {<<>>}
    \cup {<<"?", "v", "=">> \o c : c \in cs}
    \cup {<<"?", "v", "=">> \o c \o <<"&", "t", "=", "1">> : c \in cs}
    \cup {<<"?", "t", "=", "1", "&", "v", "=">> \o c : c \in cs}
    \cup {<<"?", "v", "=", "&", "v", "=">> \o c : c \in cs}
    \cup {<<"#", "v", "=">> \o c : c \in cs}

\* What a user can type: a candidate id, or scheme://host/path?query, padded or not.
RefsOf(pads, schemes, hosts, paths, queries, bare) ==
    {p \o r \o p : p \in pads, r \in bare}
    \cup {p \o sc \o h \o pa \o q \o p :
            p \in pads, sc \in schemes, h \in hosts, pa \in paths, q \in queries}

Hosts == {<<>>, <<"/", "/">> \o YoutuBe, <<"/", "/">> \o WwwYoutuBe,
          <<"/", "/">> \o WwwYoutubeCom}

References ==
    RefsOf({<<>>, <<" ">>}, {<<>>, Https}, Hosts,
           PathsOf(Cands("a", {"a", "_", "."})), QueriesOf(Cands("b", {"b"})),
           Cands("a", {"a", "-", "."}))

\* the references of the button-triggered run
RunReferences ==
    RefsOf({<<>>}, {Https}, {<<"/", "/">> \o YoutuBe, <<"/", "/">> \o WwwYoutubeCom},
           PathsOf(Cands("a", {"a"})),
           {<<>>} \cup {<<"?", "v", "=">> \o c : c \in Cands("b", {"b"})},
           Cands("a", {"a", "."}))
    \cup {<<" ">> \o r \o <<" ">> : r \in Cands("a", {"a"})}

\* os.getenv("OPENAI_API_KEY"): None, or the variable's value
EnvUnset == [set |-> FALSE, val |-> <<>>]
EnvKeys == {EnvUnset, [set |-> TRUE, val |-> <<>>], [set |-> TRUE, val |-> <<"s", "k">>]}

RECURSIVE SeqsUpTo(_, _)
SeqsUpTo(S, n) ==
    IF n = 0 THEN {<<>>}
    ELSE LET shorter == SeqsUpTo(S, n - 1)
         IN  shorter \cup {Append(q, x) : q \in {r \in shorter : Len(r) = n - 1}, x \in S}

SnippetTexts == {<<>>, <<" ">>, <<"a">>, <<" ", "b", " ">>}

ProviderOutcomes == {ProviderRaised} \cup {Fetched(q) : q \in SeqsUpTo(SnippetTexts, MaxSnippets)}

Entries == {PyStr(<<"x">>), PyStr(<<" ", "y", " ">>), PyStr(<<>>), PyStr(<<" ">>), PyInt, PyNone}

\* the values of "tweets" that are no array
OtherTweets == {PyNone, PyInt, PyStr(<<"h", "i", " ", "u">>), PyKeys(<<PyStr(<<"k">>)>>)}

BodiesOf(entries) ==
    {NotJson}
    \cup {Json(PyTop(v)) : v \in {PyNone, PyInt, PyStr(<<"x">>), PyList(<<PyStr(<<"x">>)>>)}}
    \cup {Json(PyDict(<<>>)), Json(PyDict(<<PyStr(<<"k">>)>>))}
    \cup {Json(PyDictTweets(<<>>, v)) : v \in OtherTweets}
    \cup {Json(PyDictTweets(<<>>, PyList(q))) : q \in SeqsUpTo(entries, MaxEntries)}

Bodies == BodiesOf(Entries)

\* the response bodies of the button-triggered run
RunBodies == BodiesOf({PyStr(<<"x">>), PyStr(<<" ">>), PyInt})

TextChars == {" ", "&", "%", "#", "+", "=", "/", "a", "2", "U+00E9"}

Texts == SeqsUpTo(TextChars, MaxText)

(***************************************************************************)
(* The script's run, one button press at a time                            *)
(***************************************************************************)

Element(kind, msg, text, items) == [kind |-> kind, msg |-> msg, text |-> text, items |-> items]

\* st.error(...)
ErrorBox(msg, text) == Element("error", msg, text, <<>>)

Call(svc, a) == [svc |-> svc, arg |-> a]

Unset == <<>>

Init ==
    /\ pc = "idle"
    /\ env_key = EnvUnset
    /\ url = <<>>
    /\ video_id = Unset
    /\ transcript = Unset
    /\ tweets = <<>>
    /\ ui = <<>>
    /\ calls = <<>>
    /\ arg = <<>>
    /\ ret = <<>>

\* The run is over (st.stop(), the end of the script, or an uncaught exception) and
\* the page waits for the next button press; nothing of the run is kept.
Rerun ==
    /\ pc \in {"stopped", "done", "crashed"}
    /\ pc' = "idle"
    /\ env_key' = EnvUnset
    /\ url' = <<>>
    /\ video_id' = Unset
    /\ transcript' = Unset
    /\ tweets' = <<>>
    /\ ui' = <<>>
    /\ calls' = <<>>
    /\ UNCHANGED <<arg, ret>>

\* line 125: the button is pressed with a reference typed in; the environment is read
Click(refs) ==
    /\ pc = "idle"
    /\ \E k \in EnvKeys, r \in refs :
         /\ env_key' = k
         /\ url' = r
    /\ pc' = "check_key"
    /\ video_id' = Unset
    /\ transcript' = Unset
    /\ tweets' = <<>>
    /\ ui' = <<>>
    /\ calls' = <<>>
    /\ UNCHANGED <<arg, ret>>

\* A variant that tests os.getenv("OPENAI_API_KEY") is None.
KeyIsNone(k) == ~k.set

\* not os.getenv("OPENAI_API_KEY")
KeyMissing(k) == ~k.set \/ k.val = <<>>

\* lines 126-128
CheckKey ==
    /\ pc = "check_key"
    /\ IF KeyMissing(env_key)
       THEN /\ ui' = Append(ui, ErrorBox("OPENAI_API_KEY env degiskeni yok", <<>>))
            /\ pc' = "stopped"
       ELSE /\ ui' = ui
            /\ pc' = "extract"
    /\ UNCHANGED <<env_key, url, video_id, transcript, tweets, calls, arg, ret>>

\* A variant of lines 130-134 without the st.stop() of line 134.
ExtractNoStop ==
    /\ pc = "extract"
    /\ LET r == extract_video_id(url)
       IN  IF r.raised
           THEN /\ ui' = Append(ui, ErrorBox("Video ID cikarilamadi", <<>>))
                /\ pc' = "fetch"
                /\ video_id' = video_id
           ELSE /\ video_id' = r.val
                /\ pc' = "fetch"
                /\ ui' = ui
    /\ UNCHANGED <<env_key, url, transcript, tweets, calls, arg, ret>>

\* lines 130-134
Extract ==
    /\ pc = "extract"
    /\ LET r == extract_video_id(url)
       IN  IF r.raised
           THEN /\ ui' = Append(ui, ErrorBox("Video ID cikarilamadi", <<>>))
                /\ pc' = "stopped"
                /\ video_id' = video_id
           ELSE /\ video_id' = r.val
                /\ pc' = "fetch"
                /\ ui' = ui
    /\ UNCHANGED <<env_key, url, transcript, tweets, calls, arg, ret>>

\* lines 136-141
Fetch ==
    /\ pc = "fetch"
    /\ calls' = Append(calls, Call("transcript", video_id))
    /\ \E fetched \in ProviderOutcomes :
         IF fetched.raised
         THEN /\ ui' = Append(ui, ErrorBox("Transkript alinamadi", <<>>))
              /\ pc' = "stopped"
              /\ transcript' = transcript
         ELSE /\ transcript' = fetch_transcript_text(fetched)
              /\ pc' = "preview"
              /\ ui' = ui
    /\ UNCHANGED <<env_key, url, video_id, tweets, arg, ret>>

PreviewLen == 2000

\* transcript[:2000] + ("..." if len(transcript) > 2000 else "")
PreviewOf(t) == Take(t, PreviewLen) \o (IF Len(t) > PreviewLen THEN <<".", ".", ".">> ELSE <<>>)

\* lines 143-144
Preview ==
    /\ pc = "preview"
    /\ ui' = ui \o <<Element("subheader", "Transkript (onizleme)", <<>>, <<>>),
                     Element("text_area", "", PreviewOf(transcript), <<>>)>>
    /\ pc' = "summarize"
    /\ UNCHANGED <<env_key, url, video_id, transcript, tweets, calls, arg, ret>>

\* lines 146-147; an exception of generate_3_tweets (the completion service's own, or
\* the TypeError of line 105) is caught by nothing and ends the run
Summarize(bodies) ==
    /\ pc = "summarize"
    /\ calls' = Append(calls, Call("completion", transcript))
    /\ \/ /\ pc' = "crashed"
          /\ ui' = Append(ui, Element("exception", "APIError", <<>>, <<>>))
          /\ tweets' = tweets
       \/ \E body \in bodies :
            LET r == generate_3_tweets(body)
            IN  IF r.raised
                THEN /\ pc' = "crashed"
                     /\ ui' = Append(ui, Element("exception", "TypeError", <<>>, <<>>))
                     /\ tweets' = tweets
                ELSE /\ tweets' = r.val
                     /\ pc' = "render"
                     /\ ui' = ui
    /\ UNCHANGED <<env_key, url, video_id, transcript, arg, ret>>

\* lines 154-172: one tweet's text block, link and divider
RECURSIVE TweetRows(_, _)
TweetRows(ts, i) ==
    IF i > Len(ts) THEN <<>>
    ELSE <<Element("markdown", "Tweet", <<Chr(48 + i)>>, <<>>),
           Element("write", "", ts[i], <<>>),
           Element("link", "", x_intent_url(ts[i]), <<>>),
           Element("divider", "", <<>>, <<>>)>>
         \o TweetRows(ts, i + 1)

\* A variant that is st.code(tweets).
CodeBoxRaw(ts) == Element("code", "", <<>>, ts)

\* st.code(tweets or "Bos cikti")
CodeBox(ts) ==
    IF ts = <<>> THEN Element("code", "Bos cikti", <<>>, <<>>) ELSE Element("code", "", <<>>, ts)

\* lines 149-172
Render ==
    /\ pc = "render"
    /\ ui' = ui \o <<Element("subheader", "Tweetler", <<>>, <<>>)>>
                \o (IF Len(tweets) < MaxTweets
                    THEN <<Element("warning", "Model beklenen JSON formatinda donmedi", <<>>, <<>>),
                           CodeBox(tweets)>>
                    ELSE TweetRows(tweets, 1))
    /\ pc' = "done"
    /\ UNCHANGED <<env_key, url, video_id, transcript, tweets, calls, arg, ret>>

Next ==
    \/ Click(RunReferences)
    \/ Rerun
    \/ CheckKey
    \/ Extract
    \/ Fetch
    \/ Preview
    \/ Summarize(RunBodies)
    \/ Render

Spec == Init /\ [][Next]_vars

(***************************************************************************)
(* The functions called on their own: arg is the argument, ret the result  *)
(***************************************************************************)

InitCall(args) ==
    /\ pc = "call"
    /\ env_key = EnvUnset
    /\ url = <<>>
    /\ video_id = Unset
    /\ transcript = Unset
    /\ tweets = <<>>
    /\ ui = <<>>
    /\ calls = <<>>
    /\ arg \in args
    /\ ret = <<>>

Return(result) ==
    /\ pc = "call"
    /\ pc' = "return"
    /\ ret' = result
    /\ UNCHANGED <<env_key, url, video_id, transcript, tweets, ui, calls, arg>>

CallExtract == Return(extract_video_id(arg))

CallGenerate == Return(generate_3_tweets(arg))

CallIntent == Return(x_intent_url(arg))

InitExtract == InitCall(References)
SpecExtract == InitExtract /\ [][CallExtract]_vars

InitGenerate == InitCall(Bodies)
SpecGenerate == InitGenerate /\ [][CallGenerate]_vars

InitIntent == InitCall(Texts)
SpecIntent == InitIntent /\ [][CallIntent]_vars

(***************************************************************************)
(* Properties                                                              *)
(***************************************************************************)

\* the alphabet [A-Za-z0-9_-], written out from the ASCII table
IdAlphabet ==
    {Ascii[i] : i \in (17..26) \cup (34..59) \cup (66..91)} \cup {"_", "-"}

IsVideoId(s) == Len(s) = 11 /\ \A i \in 1..Len(s) : s[i] \in IdAlphabet

\* v is s without its leading and trailing whitespace
IsTrimOf(v, s) ==
    /\ v = <<>> \/ (v[1] \notin Whitespace /\ v[Len(v)] \notin Whitespace)
    /\ \E i \in 1..(Len(s) + 1) :
         /\ i + Len(v) - 1 <= Len(s)
         /\ SubSeq(s, i, i + Len(v) - 1) = v
         /\ \A j \in 1..Len(s) : (j < i \/ j >= i + Len(v)) => s[j] \in Whitespace

IsTrimmed(s) == IsTrimOf(s, s)

CallsTo(svc) == SelectSeq(calls, LAMBDA c : c.svc = svc)

Kinds(k) == SelectSeq(ui, LAMBDA e : e.kind = k)

FetchReturned == pc \in {"preview", "summarize", "render", "done", "crashed"}

\* C1: whatever body the completion service returns (no JSON, JSON that is no object,
\* an object without "tweets", "tweets" null, a number, a string, a mixed array),
\* generate_3_tweets raises nothing and returns a list of at most 3 strings.
C1_MalformedOutputNeverRaises ==
    pc = "return" => (~ret.raised /\ Len(ret.val) <= 3)

\* C2: the entries of a "tweets" array that are strings with a character other than
\* whitespace, by position
ValidEntries(arr) ==
    {i \in 1..Len(arr) : arr[i].t = "str" /\ \E j \in 1..Len(arr[i].s) : arr[i].s[j] \notin Whitespace}

\* the position of the k-th valid entry
KthValid(arr, k) ==
    CHOOSE i \in ValidEntries(arr) : Cardinality({j \in ValidEntries(arr) : j <= i}) = k

HasTweetsArray(body) == body.json /\ body.doc.t = "dict" /\ body.doc.has /\ body.doc.tweets.t = "list"

\* C2: for a body that is an object whose "tweets" is an array, generate_3_tweets
\* returns the first 3 valid entries (strings that are not blank), in the array's
\* order and each trimmed: blank and non-string entries are dropped before the cut.
C2_FilterThenTruncate ==
    (pc = "return" /\ HasTweetsArray(arg)) =>
        LET arr == arg.doc.tweets.items
            n   == Cardinality(ValidEntries(arr))
        IN  /\ ~ret.raised
            /\ Len(ret.val) = (IF n < 3 THEN n ELSE 3)
            /\ \A k \in 1..Len(ret.val) :
                 /\ ret.val[k] # <<>>
                 /\ IsTrimOf(ret.val[k], arr[KthValid(arr, k)].s)

C2_Witness ==
    /\ pc = "return"
    /\ HasTweetsArray(arg)
    /\ Len(arg.doc.tweets.items) = 4
    /\ ~(arg.doc.tweets.items[1].t = "str" /\ Strip(arg.doc.tweets.items[1].s) # <<>>)
    /\ Cardinality(ValidEntries(arg.doc.tweets.items)) = 3
    /\ Len(ret.val) = 3

\* the credential counts as absent when the variable is unset or empty
CredentialAbsent == ~env_key.set \/ Len(env_key.val) = 0

\* C3: a run that starts without the credential ends with the configuration error
\* and calls neither the transcript provider nor the completion service.
C3_NoCallWithoutCredential ==
    (pc # "idle" /\ CredentialAbsent) =>
        /\ calls = <<>>
        /\ pc \in {"check_key", "stopped"}
        /\ pc = "stopped" => (Len(ui) = 1 /\ ui[1].kind = "error"
                              /\ ui[1].msg = "OPENAI_API_KEY env degiskeni yok")

C3_Witness ==
    /\ pc = "stopped"
    /\ CredentialAbsent
    /\ env_key.set
    /\ IsVideoId(url)

\* C4: once one of the three errors (missing credential, bad reference, transcript
\* not available) is on the page, the run has stopped: the error is all the page
\* shows, no later stage has run, and no service was called twice.
C4_ErrorsAreTerminal ==
    /\ Len(Kinds("error")) > 0 =>
         /\ pc = "stopped"
         /\ Len(ui) = 1
         /\ tweets = <<>>
         /\ Len(CallsTo("completion")) = 0
         /\ ui[1].msg # "Transkript alinamadi" => calls = <<>>
         /\ ui[1].msg = "Transkript alinamadi" => (Len(calls) = 1 /\ transcript = Unset)
    /\ pc = "stopped" => Len(Kinds("error")) = 1
    /\ Len(CallsTo("transcript")) <= 1
    /\ Len(CallsTo("completion")) <= 1

C4_Witness ==
    /\ pc = "stopped"
    /\ Len(ui) = 1
    /\ ui[1].msg = "Transkript alinamadi"
    /\ Len(CallsTo("transcript")) = 1

\* the i-th tweet's row of the page: its text block, then its link
TextBlock(i) == Kinds("write")[i]
LinkOf(i) == Kinds("link")[i]

LinksIffThree ==
    /\ Len(Kinds("link")) > 0 <=> Len(tweets) = 3
    /\ Len(tweets) = 3 =>
         /\ Len(Kinds("write")) = 3
         /\ Len(Kinds("link")) = 3
         /\ Len(Kinds("warning")) = 0
         /\ \A i \in 1..3 :
              /\ TextBlock(i).text = tweets[i]
              /\ LinkOf(i).text = x_intent_url(TextBlock(i).text)
    /\ Len(tweets) < 3 =>
         /\ Len(Kinds("warning")) = 1
         /\ Len(Kinds("code")) = 1
         /\ Len(Kinds("write")) = 0

\* C5 as stated: links are rendered exactly when the summarizer returned 3 entries, 3
\* text blocks each with the link of its own text; with fewer the warning branch
\* shows the raw list, the empty one like any other.
C5_WarningShowsRawList ==
    pc = "done" =>
        /\ LinksIffThree
        /\ Len(tweets) < 3 => (Kinds("code")[1].items = tweets /\ Kinds("code")[1].msg = "")

\* C5, amended: as above, but the warning branch shows the list only when it has an
\* entry; for the empty list it shows the fixed text "Bos cikti" in its place.
C5_WarningShowsListOrPlaceholder ==
    pc = "done" =>
        /\ LinksIffThree
        /\ Len(tweets) \in 1..2 => (Kinds("code")[1].items = tweets /\ Kinds("code")[1].msg = "")
        /\ Len(tweets) = 0 => (Kinds("code")[1].items = <<>> /\ Kinds("code")[1].msg = "Bos cikti")

C5_Witness ==
    /\ pc = "done"
    /\ Len(tweets) = 0
    /\ Len(Kinds("warning")) = 1
    /\ Kinds("code")[1].msg = "Bos cikti"

\* the four accepted shapes of a reference, read off the parsed URL
BareId(s) == IsVideoId(s)

ShortLink(u) ==
    /\ u.netloc \in ShortHosts
    /\ \E seg \in {Split(StripSet(u.path, {"/"}), "/")[1]} : IsVideoId(seg)

WatchLink(u) ==
    /\ u.path = WatchPath
    /\ LET vs == qs_get(u.query, <<"v">>) IN vs # <<>> /\ IsVideoId(vs[1])

\* the path segments that follow a "shorts" segment
AfterShorts(path) ==
    LET segs == Split(path, "/")
    IN  {segs[i + 1] : i \in {j \in 2..(Len(segs) - 1) : segs[j] = <<"s", "h", "o", "r", "t", "s">>}}

ShortsLink(u) == \E seg \in AfterShorts(u.path) : IsVideoId(seg)

MatchesAShape(text) ==
    LET t == Strip(text)
        u == urlparse(t)
    IN  BareId(t) \/ (~u.raised /\ (ShortLink(u) \/ WatchLink(u) \/ ShortsLink(u)))

\* C6: extract_video_id fails exactly when the trimmed input has none of the four
\* shapes: a bare id, a short link with an id as first segment, the path /watch with
\* an id as v, a path with the segment pair /shorts/<id>.
C6_FailsExactlyWhenNoShape ==
    pc = "return" => (ret.raised <=> ~MatchesAShape(arg))

\* C9: an id returned through the shorts shape (no shape before it matched) is a
\* whole path segment right after /shorts/; 12 or more id characters after /shorts/
\* do not give an id.
C9_ShortsIdIsWholeSegment ==
    LET t == Strip(arg)
        u == urlparse(t)
    IN  (pc = "return" /\ ~ret.raised /\ ~BareId(t) /\ ~ShortLink(u) /\ ~WatchLink(u))
            => ret.val \in AfterShorts(u.path)

\* C8: every id extract_video_id returns is 11 characters of [A-Za-z0-9_-], and the
\* transcript provider is only called with such an id, the one extracted in this run.
C8_IdIsElevenOfAlphabet ==
    /\ video_id # Unset => IsVideoId(video_id)
    /\ pc \in {"fetch", "preview", "summarize", "render", "done", "crashed"} => IsVideoId(video_id)
    /\ \A i \in 1..Len(calls) :
         calls[i].svc = "transcript" => (IsVideoId(calls[i].arg) /\ calls[i].arg = video_id)

C8_Witness ==
    /\ Len(CallsTo("transcript")) = 1
    /\ IsVideoId(calls[1].arg)
    /\ ~IsVideoId(url)
    /\ AfterShorts(urlparse(url).path) # {}
    /\ calls[1].arg \notin AfterShorts(urlparse(url).path)

\* the text after the fixed prefix of a compose-intent URL
EncodedText(link) == SubSeq(link, Len(IntentPrefix) + 1, Len(link))

\* C7: x_intent_url(text) is the fixed prefix followed by an encoding of the text
\* that percent-decodes to the text and holds no raw space, "&" or "#".
C7_IntentUrlRoundTrip ==
    pc = "return" =>
        /\ Len(ret) >= Len(IntentPrefix)
        /\ SubSeq(ret, 1, Len(IntentPrefix)) = IntentPrefix
        /\ unquote(EncodedText(ret)) = arg
        /\ \A i \in 1..Len(EncodedText(ret)) : EncodedText(ret)[i] \notin {" ", "&", "#"}

C7_Witness ==
    /\ pc = "return"
    /\ arg = <<" ", "&", "%">>
    /\ EncodedText(ret) = <<"%", "2", "0", "%", "2", "6", "%", "2", "5">>

\* C10: a transcript that fetch_transcript_text returned is trimmed and not empty, and
\* the summarizer is never called with an empty transcript.
C10_TranscriptTrimmedNonEmpty ==
    /\ FetchReturned => (IsTrimmed(transcript) /\ transcript # <<>>)
    /\ \A i \in 1..Len(calls) : calls[i].svc = "completion" => calls[i].arg # <<>>

====
